---- MODULE Spec2Model ----
(***************************************************************************)
(* Model of the cafeteria queueing simulation (simulation/cafeteria_model  *)
(* .py) and of the demand predictor (simulation/ai_predictor.py).          *)
(*                                                                         *)
(* The simulation runs on the SimPy event loop.  The loop is modelled by   *)
(* its event heap: every scheduled event is a record                       *)
(*   [time, prio, eid, kind, cust]                                         *)
(* ordered by (time, prio, eid), prio 0 = URGENT, prio 1 = NORMAL, exactly *)
(* the key SimPy pushes on its heap.  One action processes the earliest    *)
(* event and runs the callbacks the code attached to it.  Simulated time   *)
(* is counted in integer ticks; random.expovariate draws are chosen from   *)
(* a bounded set of durations (0 included: expovariate can return 0.0).    *)
(* The Process-termination event of a finished customer has no callback    *)
(* and is left out of the heap.                                            *)
(***************************************************************************)
EXTENDS Integers, Sequences, FiniteSets, TLC

\* ---------------------------------------------------------------- bounds
MaxDur == 2
MaxCustomers == 3
MaxSimTime == 3
MaxServers == 2
MaxCapacity == 2
\* predictor inputs: at most MaxArrivals timestamps, in hundredths of a time
\* unit (the round(t, 2) format of the result bundle), on a grid of half
\* units up to MaxHalfUnits / 2, plus one late timestamp
MaxArrivals == 6
MaxHalfUnits == 6
MaxForecast == 2
\* statistics inputs: series of at most MaxSamples values
MaxSamples == 3

URGENT == 0
NORMAL == 1

VARIABLES
    \* configuration (CafeteriaSimulation.__init__)
    arrival_rate, service_rate, num_servers, sim_time, queue_capacity,
    \* output metrics (CafeteriaSimulation.__init__)
    customers_served, customers_rejected, wait_times, service_times,
    system_times, queue_lengths, arrival_times, server_busy_time,
    max_queue_length,
    \* simpy.Environment: clock, event heap, event id counter
    now, evq, eid,
    \* simpy.Resource: users holding a server, pending requests (FIFO list)
    users, put_queue,
    \* customer_generator local
    customer_id,
    \* customer_process locals, per running customer process
    cust,
    \* control: "init", "running", "returned", "raised"; the returned bundle
    pc, results,
    \* history: customer ids in the order they started service, ids rejected
    start_order, rejected_ids,
    \* DemandPredictor.predict_demand: arguments, returned report, whether
    \* LinearRegression.fit ran, and "idle" / "returned"
    pred_arrival_times, forecast_periods, prediction, model_fitted, pred_pc,
    \* StatisticalAnalysis: the two series taken from the result bundle
    \* (__init__), the report of analyze, and "idle" / "returned" / "raised"
    stat_wait_times, stat_service_times, report, stat_pc,
    \* 1 once run() has been called a second time on the same instance
    runs

simvars == <<arrival_rate, service_rate, num_servers, sim_time, queue_capacity,
             customers_served, customers_rejected, wait_times, service_times,
             system_times, queue_lengths, arrival_times, server_busy_time,
             max_queue_length, now, evq, eid, users, put_queue, customer_id,
             cust, pc, results, start_order, rejected_ids>>

predvars == <<pred_arrival_times, forecast_periods, prediction, model_fitted, pred_pc>>

statvars == <<stat_wait_times, stat_service_times, report, stat_pc>>

vars == <<simvars, predvars, statvars, runs>>

cfgvars == <<arrival_rate, service_rate, num_servers, sim_time, queue_capacity>>

\* ------------------------------------------------------------- helpers
Max(a, b) == IF a >= b THEN a ELSE b

Min(a, b) == IF a <= b THEN a ELSE b

RECURSIVE SumSeq(_)
SumSeq(s) == IF s = <<>> THEN 0 ELSE Head(s) + SumSeq(Tail(s))

RECURSIVE SumSq(_)
SumSq(s) == IF s = <<>> THEN 0 ELSE Head(s) * Head(s) + SumSq(Tail(s))

\* s without its first occurrence of x (list.remove)
RECURSIVE Remove(_, _)
Remove(s, x) ==
    IF s = <<>> THEN <<>>
    ELSE IF Head(s) = x THEN Tail(s)
    ELSE <<Head(s)>> \o Remove(Tail(s), x)

SeqRange(s) == {s[i] : i \in 1..Len(s)}

\* round(n/d , k) once n has been scaled by 10^k: nearest integer, ties to even
RoundHalfEven(n, d) ==
    LET q == n \div d
        r == n % d
    IN  IF 2 * r < d THEN q
        ELSE IF 2 * r > d THEN q + 1
        ELSE IF q % 2 = 0 THEN q ELSE q + 1

\* ------------------------------------------------- simpy.Environment
Earlier(e, f) ==
    \/ e.time < f.time
    \/ e.time = f.time /\ e.prio < f.prio
    \/ e.time = f.time /\ e.prio = f.prio /\ e.eid < f.eid

NextEvent == CHOOSE e \in evq : \A f \in evq \ {e} : Earlier(e, f)

Event(t, p, id, k, c) == [time |-> t, prio |-> p, eid |-> id, kind |-> k, cust |-> c]

\* random.expovariate(rate): the draws the bounded model allows
Expovariate(rate) ==
    IF rate > 0 THEN 0..MaxDur
    ELSE IF rate < 0 THEN {0 - d : d \in 0..MaxDur}
    ELSE {}

\* ------------------------------------------------------------------ Init
ValidConfig ==
    /\ arrival_rate > 0
    /\ service_rate > 0
    /\ num_servers >= 1
    /\ sim_time > 0
    /\ queue_capacity >= 0

Init ==
    /\ arrival_rate \in {-1, 0, 1}
    /\ service_rate \in {-1, 0, 1}
    /\ num_servers \in 0..MaxServers
    /\ sim_time \in 0..MaxSimTime
    /\ queue_capacity \in -1..MaxCapacity
    /\ customers_served = 0
    /\ customers_rejected = 0
    /\ wait_times = <<>>
    /\ service_times = <<>>
    /\ system_times = <<>>
    /\ queue_lengths = <<>>
    /\ arrival_times = <<>>
    /\ server_busy_time = 0
    /\ max_queue_length = 0
    /\ now = 0
    /\ evq = {}
    /\ eid = 0
    /\ users = <<>>
    /\ put_queue = <<>>
    /\ customer_id = 0
    /\ cust = <<>>
    /\ pc = "init"
    /\ results = <<>>
    /\ start_order = <<>>
    /\ rejected_ids = {}
    /\ pred_arrival_times = <<>>
    /\ forecast_periods = 0
    /\ prediction = <<>>
    /\ model_fitted = FALSE
    /\ pred_pc = "idle"
    /\ stat_wait_times = <<>>
    /\ stat_service_times = <<>>
    /\ report = <<>>
    /\ stat_pc = "idle"
    /\ runs = 0

\* ---------------------------------------------------- simpy.Resource
\* BaseResource._trigger_put with Resource._do_put: only the head of the
\* request list is tried (_do_put returns None, so the loop breaks after it);
\* it is granted when a server is free, and its Request event is scheduled.
TriggerPut_NoCapacity(t, st) ==
    IF st.put_queue # <<>>
    THEN [users     |-> Append(st.users, Head(st.put_queue)),
          put_queue |-> Tail(st.put_queue),
          evq       |-> st.evq \cup {Event(t, NORMAL, st.eid, "request", Head(st.put_queue))},
          eid       |-> st.eid + 1]
    ELSE st

TriggerPut_LIFO(t, st) ==
    IF st.put_queue # <<>> /\ Len(st.users) < num_servers
    THEN [users     |-> Append(st.users, st.put_queue[Len(st.put_queue)]),
          put_queue |-> SubSeq(st.put_queue, 1, Len(st.put_queue) - 1),
          evq       |-> st.evq \cup {Event(t, NORMAL, st.eid, "request",
                                           st.put_queue[Len(st.put_queue)])},
          eid       |-> st.eid + 1]
    ELSE st

TriggerPut(t, st) ==
    IF st.put_queue # <<>> /\ Len(st.users) < num_servers
    THEN [users     |-> Append(st.users, Head(st.put_queue)),
          put_queue |-> Tail(st.put_queue),
          evq       |-> st.evq \cup {Event(t, NORMAL, st.eid, "request", Head(st.put_queue))},
          eid       |-> st.eid + 1]
    ELSE st

\* Resource.release (Request.__exit__): the user is removed at once and the
\* Release event, whose callback is _trigger_put, is scheduled.
Release(t, c, st) ==
    [users     |-> Remove(st.users, c),
     put_queue |-> st.put_queue,
     evq       |-> st.evq \cup {Event(t, NORMAL, st.eid, "release", c)},
     eid       |-> st.eid + 1]

\* A process whose generator raised: its failed Process event is scheduled;
\* nobody waits on it, so processing it re-raises out of env.run.
Fail(t, st) ==
    [users     |-> st.users,
     put_queue |-> st.put_queue,
     evq       |-> st.evq \cup {Event(t, NORMAL, st.eid, "fail", 0)},
     eid       |-> st.eid + 1]

ResState(evs) == [users |-> users, put_queue |-> put_queue, evq |-> evs, eid |-> eid]

SetRes(st) ==
    /\ users' = st.users
    /\ put_queue' = st.put_queue
    /\ evq' = st.evq
    /\ eid' = st.eid

\* ------------------------------------------------ customer_generator
\* Inter-arrival draws.  Once MaxCustomers customers were generated the
\* draw is one that carries the next arrival to the horizon, where it is
\* never processed.
ArrivalDraws(t, cid) ==
    IF cid < MaxCustomers THEN Expovariate(arrival_rate)
    ELSE IF arrival_rate > 0 THEN {sim_time - t}
    ELSE Expovariate(arrival_rate) \ {0}

\* Lines 58-59: draw the inter-arrival time and yield its timeout.  The
\* result is the set of heaps the step can leave behind.
GeneratorWait(t, cid, st) ==
    IF arrival_rate = 0 THEN {Fail(t, st)}
    ELSE {IF d < 0 THEN Fail(t, st)
          ELSE [st EXCEPT !.evq = @ \cup {Event(t + d, NORMAL, st.eid, "arrive", 0)},
                          !.eid = @ + 1] : d \in ArrivalDraws(t, cid)}

\* Line 65: the admission test of an arriving customer
Admit_Inclusive == Len(put_queue) <= queue_capacity

Admit_InSystem == Len(put_queue) + Len(users) < queue_capacity

Admit_ServerIdle == Len(put_queue) < queue_capacity \/ Len(users) < num_servers

Admit == Len(put_queue) < queue_capacity

\* Line 119, env.run(until=sim_time): the stop event, URGENT at sim_time
UntilEvent_Late == Event(sim_time + 1, URGENT, 1, "until", 0)

UntilEvent == Event(sim_time, URGENT, 1, "until", 0)

Running(kind) ==
    /\ pc = "running"
    /\ evq # {}
    /\ NextEvent.kind = kind

metricvars == <<customers_served, customers_rejected, wait_times, service_times,
                system_times, queue_lengths, arrival_times, server_busy_time,
                max_queue_length>>

\* run(), lines 110-119, up to the first step of the event loop
Run ==
    /\ pc = "init"
    /\ IF num_servers <= 0 \/ sim_time <= 0
       THEN \* simpy.Resource: "capacity" must be > 0; env.run: until must be > now
            /\ pc' = "raised"
            /\ evq' = {}
            /\ eid' = eid
       ELSE /\ pc' = "running"
            /\ evq' = {Event(0, URGENT, 0, "init_gen", 0),
                       UntilEvent}
            /\ eid' = 2
    /\ now' = 0
    /\ users' = <<>>
    /\ put_queue' = <<>>
    /\ UNCHANGED <<predvars, statvars, runs, cfgvars, metricvars, customer_id, cust, results,
                   start_order, rejected_ids>>

\* customer_generator, lines 55-59: first activation of the generator
ProcessInitGen ==
    /\ Running("init_gen")
    /\ LET ev == NextEvent
       IN  /\ now' = ev.time
           /\ customer_id' = 0
           /\ \E st \in GeneratorWait(ev.time, 0, ResState(evq \ {ev})) : SetRes(st)
    /\ UNCHANGED <<predvars, statvars, runs, cfgvars, metricvars, cust, pc, results, start_order, rejected_ids>>

\* customer_generator, lines 61-68 and the next pass through lines 58-59
ProcessArrival ==
    /\ Running("arrive")
    /\ LET ev == NextEvent
           t == ev.time
           cid == customer_id + 1
           admit == Admit
           st0 == ResState(evq \ {ev})
           st1 == IF admit
                  THEN [st0 EXCEPT !.evq = @ \cup {Event(t, URGENT, st0.eid, "init_cust", cid)},
                                   !.eid = @ + 1]
                  ELSE st0
       IN  /\ now' = t
           /\ customer_id' = cid
           /\ arrival_times' = Append(arrival_times, t)
           /\ customers_rejected' = IF admit THEN customers_rejected
                                    ELSE customers_rejected + 1
           /\ rejected_ids' = IF admit THEN rejected_ids ELSE rejected_ids \cup {cid}
           /\ \E st \in GeneratorWait(t, cid, st1) : SetRes(st)
    /\ UNCHANGED <<predvars, statvars, runs, cfgvars, customers_served, wait_times, service_times, system_times,
                   queue_lengths, server_busy_time, max_queue_length, cust, pc,
                   results, start_order>>

\* customer_process, lines 74-83: sample the queue, request a server
ProcessInitCustomer ==
    /\ Running("init_cust")
    /\ LET ev == NextEvent
           t == ev.time
           c == ev.cust
           queue_length == Len(put_queue)
           st0 == [ResState(evq \ {ev}) EXCEPT !.put_queue = Append(@, c)]
       IN  /\ now' = t
           /\ queue_lengths' = Append(queue_lengths, queue_length)
           /\ max_queue_length' = Max(max_queue_length, queue_length)
           /\ cust' = [x \in DOMAIN cust \cup {c} |->
                          IF x = c THEN [arrival_time |-> t, service_time |-> 0]
                          ELSE cust[x]]
           /\ SetRes(TriggerPut(t, st0))
    /\ UNCHANGED <<predvars, statvars, runs, cfgvars, customers_served, customers_rejected, wait_times,
                   service_times, system_times, arrival_times, server_busy_time,
                   customer_id, pc, results, start_order, rejected_ids>>

\* customer_process, lines 85-95: the Request event fired, service starts.
\* An exception of the draw or of env.timeout leaves the with block, which
\* releases the server, and fails the process.
ProcessRequest ==
    /\ Running("request")
    /\ LET ev == NextEvent
           t == ev.time
           c == ev.cust
           wait_time == t - cust[c].arrival_time
           st0 == ResState(evq \ {ev})
       IN  /\ now' = t
           /\ wait_times' = Append(wait_times, wait_time)
           /\ start_order' = Append(start_order, c)
           /\ IF service_rate = 0
              THEN /\ service_times' = service_times
                   /\ cust' = [x \in DOMAIN cust \ {c} |-> cust[x]]
                   /\ SetRes(Fail(t, Release(t, c, st0)))
              ELSE \E service_time \in Expovariate(service_rate) :
                   /\ service_times' = Append(service_times, service_time)
                   /\ IF service_time < 0
                      THEN /\ cust' = [x \in DOMAIN cust \ {c} |-> cust[x]]
                           /\ SetRes(Fail(t, Release(t, c, st0)))
                      ELSE /\ cust' = [cust EXCEPT ![c].service_time = service_time]
                           /\ SetRes([st0 EXCEPT
                                  !.evq = @ \cup {Event(t + service_time, NORMAL, st0.eid, "done", c)},
                                  !.eid = @ + 1])
    /\ UNCHANGED <<predvars, statvars, runs, cfgvars, customers_served, customers_rejected, system_times,
                   queue_lengths, arrival_times, server_busy_time, max_queue_length,
                   customer_id, pc, results, rejected_ids>>

\* customer_process, lines 96-103, and the release at the end of the with block
ProcessDone_SkipZero ==
    /\ Running("done")
    /\ LET ev == NextEvent
           t == ev.time
           c == ev.cust
           system_time == t - cust[c].arrival_time
       IN  /\ now' = t
           /\ system_times' = IF system_time > 0 THEN Append(system_times, system_time)
                              ELSE system_times
           /\ customers_served' = customers_served + 1
           /\ server_busy_time' = server_busy_time + cust[c].service_time
           /\ cust' = [x \in DOMAIN cust \ {c} |-> cust[x]]
           /\ SetRes(Release(t, c, ResState(evq \ {ev})))
    /\ UNCHANGED <<predvars, statvars, runs, cfgvars, customers_rejected, wait_times, service_times,
                   queue_lengths, arrival_times, max_queue_length, customer_id,
                   pc, results, start_order, rejected_ids>>

ProcessDone ==
    /\ Running("done")
    /\ LET ev == NextEvent
           t == ev.time
           c == ev.cust
           system_time == t - cust[c].arrival_time
       IN  /\ now' = t
           /\ system_times' = Append(system_times, system_time)
           /\ customers_served' = customers_served + 1
           /\ server_busy_time' = server_busy_time + cust[c].service_time
           /\ cust' = [x \in DOMAIN cust \ {c} |-> cust[x]]
           /\ SetRes(Release(t, c, ResState(evq \ {ev})))
    /\ UNCHANGED <<predvars, statvars, runs, cfgvars, customers_rejected, wait_times, service_times,
                   queue_lengths, arrival_times, max_queue_length, customer_id,
                   pc, results, start_order, rejected_ids>>

\* The Release event fires: its callback _trigger_put hands the free server
\* to the head of the request list.
ProcessRelease ==
    /\ Running("release")
    /\ LET ev == NextEvent
       IN  /\ now' = ev.time
           /\ SetRes(TriggerPut(ev.time, ResState(evq \ {ev})))
    /\ UNCHANGED <<predvars, statvars, runs, cfgvars, metricvars, customer_id, cust, pc, results,
                   start_order, rejected_ids>>

\* A failed process event fires with no callback: Environment.step raises
\* the exception, which leaves env.run and run().
ProcessFail ==
    /\ Running("fail")
    /\ LET ev == NextEvent
       IN  /\ now' = ev.time
           /\ evq' = evq \ {ev}
    /\ pc' = "raised"
    /\ UNCHANGED <<predvars, statvars, runs, cfgvars, metricvars, eid, users, put_queue, customer_id, cust,
                   results, start_order, rejected_ids>>

\* ------------------------------------------------- calculate_metrics
\* Values rounded to 2 decimals are held in hundredths, values rounded to
\* 4 decimals in ten-thousandths (round is modelled on the exact quotient).
Mean2(s) == IF s # <<>> THEN RoundHalfEven(100 * SumSeq(s), Len(s)) ELSE 0

\* numerator of np.var(s) over the denominator Len(s)^2
VarNum(s) == Len(s) * SumSq(s) - SumSeq(s) * SumSeq(s)

Var2(s) == IF Len(s) > 1 THEN RoundHalfEven(100 * VarNum(s), Len(s) * Len(s)) ELSE 0

\* round(np.sqrt(p/q), 2) in hundredths: the k with (k - 1/2)^2 <= 10^4 p/q < (k + 1/2)^2
RoundSqrt2(p, q) ==
    CHOOSE k \in 0..(100 * (MaxSimTime + MaxDur + 1)) :
        /\ (k = 0 \/ (2 * k - 1) * (2 * k - 1) * q <= 40000 * p)
        /\ 40000 * p < (2 * k + 1) * (2 * k + 1) * q

Std2(s) == IF Len(s) > 1 THEN RoundSqrt2(VarNum(s), Len(s) * Len(s)) ELSE 0

First100(s) == SubSeq(s, 1, Min(Len(s), 100))

Round2Each(s) == [i \in 1..Len(s) |-> 100 * s[i]]

calculate_metrics ==
    LET total_server_time == num_servers * sim_time
        total_arrivals == customers_served + customers_rejected
    IN  [customers_served       |-> customers_served,
         customers_rejected     |-> customers_rejected,
         avg_wait_time          |-> Mean2(wait_times),
         avg_service_time       |-> Mean2(service_times),
         avg_system_time        |-> Mean2(system_times),
         avg_queue_length       |-> Mean2(queue_lengths),
         max_queue_length       |-> max_queue_length,
         server_utilization     |-> IF total_server_time > 0
                                    THEN RoundHalfEven(10000 * server_busy_time, total_server_time)
                                    ELSE 0,
         var_wait_time          |-> Var2(wait_times),
         var_service_time       |-> Var2(service_times),
         std_wait_time          |-> Std2(wait_times),
         std_service_time       |-> Std2(service_times),
         effective_arrival_rate |-> IF sim_time > 0
                                    THEN RoundHalfEven(10000 * Len(arrival_times), sim_time)
                                    ELSE 0,
         rejection_probability  |-> IF total_arrivals > 0
                                    THEN RoundHalfEven(10000 * customers_rejected, total_arrivals)
                                    ELSE 0,
         wait_times             |-> Round2Each(First100(wait_times)),
         service_times          |-> Round2Each(First100(service_times)),
         queue_lengths          |-> First100(queue_lengths),
         arrival_times          |-> Round2Each(First100(arrival_times)),
         input_params           |-> [arrival_rate   |-> arrival_rate,
                                     service_rate   |-> service_rate,
                                     num_servers    |-> num_servers,
                                     sim_time       |-> sim_time,
                                     queue_capacity |-> queue_capacity]]

\* The until event (URGENT, at sim_time) fires before any other event of
\* that instant: StopSimulation ends env.run, and run() returns the metrics
\* (lines 119-124).  Events still on the heap are dropped with the env.
ProcessUntil ==
    /\ Running("until")
    /\ LET ev == NextEvent
       IN  /\ now' = ev.time
           /\ evq' = evq \ {ev}
    /\ results' = calculate_metrics
    /\ pc' = "returned"
    /\ UNCHANGED <<predvars, statvars, runs, cfgvars, metricvars, eid, users, put_queue, customer_id, cust,
                   start_order, rejected_ids>>

Next ==
    \/ Run
    \/ ProcessInitGen
    \/ ProcessArrival
    \/ ProcessInitCustomer
    \/ ProcessRequest
    \/ ProcessDone
    \/ ProcessRelease
    \/ ProcessFail
    \/ ProcessUntil

Spec == Init /\ [][Next]_vars

\* --------------------------------------------- run() on a used instance
\* run(), lines 110-119, called a second time after it returned: a new Environment
\* (clock 0, empty heap) and a new Resource are built and a new generator
\* is started; the counters and series of __init__ (lines 30-49) are not
\* assigned anywhere in run() and keep the values of the earlier call.
RunAgain ==
    /\ pc = "returned"
    /\ runs = 0
    /\ runs' = runs + 1
    /\ pc' = "running"
    /\ evq' = {Event(0, URGENT, 0, "init_gen", 0), UntilEvent}
    /\ eid' = 2
    /\ now' = 0
    /\ users' = <<>>
    /\ put_queue' = <<>>
    /\ cust' = <<>>
    /\ start_order' = <<>>
    /\ rejected_ids' = {}
    /\ UNCHANGED <<predvars, statvars, cfgvars, metricvars, customer_id, results>>

\* One accepted configuration: a single server, one waiting place and a
\* horizon long enough for a service of two ticks to finish in each call.
InitRerun ==
    /\ Init
    /\ arrival_rate = 1
    /\ service_rate = 1
    /\ num_servers = 1
    /\ sim_time = 3
    /\ queue_capacity = 1

NextRerun ==
    \/ Run
    \/ ProcessInitGen
    \/ ProcessArrival
    \/ ProcessInitCustomer
    \/ ProcessRequest
    \/ ProcessDone
    \/ ProcessRelease
    \/ ProcessUntil
    \/ RunAgain

SpecRerun == InitRerun /\ [][NextRerun]_vars

\* =================================================================
\* DemandPredictor (simulation/ai_predictor.py)
\* =================================================================
\* Timestamps are integers counting hundredths of a time unit.  Quotients
\* are kept exact as numerator / denominator and rounded where the code
\* rounds.
Unit == 100

LateStamp == 4000

RECURSIVE MaxOf(_)
MaxOf(s) == IF Len(s) = 1 THEN s[1] ELSE Max(Head(s), MaxOf(Tail(s)))

RECURSIVE Insert(_, _)
Insert(s, x) ==
    IF s = <<>> THEN <<x>>
    ELSE IF x <= Head(s) THEN <<x>> \o s
    ELSE <<Head(s)>> \o Insert(Tail(s), x)

RECURSIVE Sorted(_)
Sorted(s) == IF s = <<>> THEN <<>> ELSE Insert(Sorted(Tail(s)), Head(s))

\* Line 89, interval = max(1, max_time / 20), times 20, in hundredths
Interval20(max_time) == Max(20 * Unit, max_time)

\* Line 91, len(np.arange(0, max_time + interval, interval)) = ceil((stop - start) / step)
NumEdges(max_time) ==
    (20 * max_time + 2 * Interval20(max_time) - 1) \div Interval20(max_time)

\* Line 92, np.histogram(arrival_times, bins): bin k is [edge k, edge k+1),
\* the last bin is closed on the right; edge k = k * interval
InBin(v, k, nbins, i20) ==
    /\ k * i20 <= 20 * v
    /\ IF k = nbins - 1 THEN 20 * v <= (k + 1) * i20 ELSE 20 * v < (k + 1) * i20

\* prepare_time_series: the counts y; X is the list of indices 0..Len(y)-1,
\* the count of index k is y[k + 1]
prepare_time_series(arrivals) ==
    IF Len(arrivals) = 0 THEN <<>>
    ELSE LET max_time == MaxOf(arrivals)
             i20 == Interval20(max_time)
             nbins == NumEdges(max_time) - 1
         IN  [b \in 1..nbins |->
                 Cardinality({i \in 1..Len(arrivals) : InBin(arrivals[i], b - 1, nbins, i20)})]

\* LinearRegression().fit(X, y) with X = 0..n-1: least squares in exact
\* arithmetic; slope = Sxy / Sxx, line(i) = LineNum(i) / LineDen
RECURSIVE SumIdx(_, _)
SumIdx(y, k) == IF k = 0 THEN 0 ELSE (k - 1) * y[k] + SumIdx(y, k - 1)

Sx(n) == (n * (n - 1)) \div 2

Sxx(n) == n * (((n - 1) * n * (2 * n - 1)) \div 6) - Sx(n) * Sx(n)

Sxy(y) == Len(y) * SumIdx(y, Len(y)) - Sx(Len(y)) * SumSeq(y)

Syy(y) == Len(y) * SumSq(y) - SumSeq(y) * SumSeq(y)

LineNum(y, i) == SumSeq(y) * Sxx(Len(y)) - Sxy(y) * Sx(Len(y)) + Len(y) * Sxy(y) * i

LineDen(y) == Len(y) * Sxx(Len(y))

\* interpret_trend, on slope = Sxy / Sxx with Sxx > 0
interpret_trend(sxy, sxx) ==
    IF 10 * sxy > sxx THEN "increasing"
    ELSE IF 10 * sxy < 0 - sxx THEN "decreasing"
    ELSE "stable"

\* <<floor(a * 10^k / b), remainder>> by long division, a >= 0, b > 0
RECURSIVE DivDigits(_, _, _)
DivDigits(a, b, k) ==
    IF k = 0 THEN <<a \div b, a % b>>
    ELSE LET p == DivDigits(a, b, k - 1)
         IN  <<10 * p[1] + ((10 * p[2]) \div b), (10 * p[2]) % b>>

\* round(a / b, k) in units of 10^-k, ties to even
RoundDigits(a, b, k) ==
    LET p == DivDigits(a, b, k)
    IN  IF 2 * p[2] < b THEN p[1]
        ELSE IF 2 * p[2] > b THEN p[1] + 1
        ELSE IF p[1] % 2 = 0 THEN p[1] ELSE p[1] + 1

\* model.score(X, y): R^2 = Sxy^2 / (Sxx Syy), 1.0 for a constant series
Score4(y) ==
    IF Syy(y) = 0 THEN 10000
    ELSE RoundDigits(Sxy(y) * Sxy(y), Sxx(Len(y)) * Syy(y), 4)

\* nearest integer to sqrt(p / q), p >= 0, q > 0
RoundSqrt(p, q, bound) ==
    CHOOSE k \in 0..bound :
        /\ (k = 0 \/ (2 * k - 1) * (2 * k - 1) * q <= 4 * p)
        /\ 4 * p < (2 * k + 1) * (2 * k + 1) * q

\* analyze_patterns; a gap x is a peak when x < mean - std
analyze_patterns(arrivals) ==
    IF Len(arrivals) < 10
    THEN [peak_detected |-> FALSE, periodicity |-> "unknown"]
    ELSE LET srt == Sorted(arrivals)
             intervals == [i \in 1..(Len(srt) - 1) |-> srt[i + 1] - srt[i]]
             m == Len(intervals)
             total == SumSeq(intervals)
             varnum == m * SumSq(intervals) - total * total
             peak_periods == Cardinality({i \in 1..m :
                                 /\ total - m * intervals[i] > 0
                                 /\ varnum < (total - m * intervals[i]) * (total - m * intervals[i])})
         IN  [peak_detected    |-> 5 * peak_periods > m,
              peak_percentage  |-> RoundHalfEven(100 * peak_periods, m),
              avg_interarrival |-> RoundHalfEven(total, m),
              std_interarrival |-> RoundSqrt(varnum, m * m, MaxOf(srt)),
              periodicity      |-> IF varnum > total * total
                                   THEN "high_variability" ELSE "regular"]

\* generate_ai_recommendations: the insights as <<cause, priority>>
generate_ai_recommendations(trend, patterns) ==
    (IF trend = "increasing" THEN << <<"increasing", "high">> >>
     ELSE IF trend = "decreasing" THEN << <<"decreasing", "medium">> >>
     ELSE <<>>)
    \o (IF patterns.peak_detected THEN << <<"peak", "high">> >> ELSE <<>>)
    \o (IF patterns.periodicity = "high_variability"
        THEN << <<"high_variability", "medium">> >> ELSE <<>>)

InsufficientData == [predictions |-> <<>>, trend |-> "insufficient_data", confidence |-> 0]

\* Line 34
TooFewArrivals(arrivals) == Len(arrivals) < 5

\* Line 44
TooFewBins_Two(y) == Len(y) < 2

TooFewBins(y) == Len(y) < 3

\* Lines 51-53: is LinearRegression.fit reached
Fits(arrivals) ==
    /\ ~TooFewArrivals(arrivals)
    /\ ~TooFewBins(prepare_time_series(arrivals))

\* predict_demand; predictions and slope/confidence in hundredths and
\* ten-thousandths
predict_demand(arrivals, periods) ==
    IF TooFewArrivals(arrivals) THEN InsufficientData
    ELSE LET y == prepare_time_series(arrivals)
         IN  IF TooFewBins(y) THEN InsufficientData
             ELSE LET last_index == Len(arrivals)
                      future_indices == [j \in 1..periods |-> last_index + j - 1]
                      trend == interpret_trend(Sxy(y), Sxx(Len(y)))
                      patterns == analyze_patterns(arrivals)
                  IN  [predictions |-> [j \in 1..periods |->
                                           RoundHalfEven(100 * LineNum(y, future_indices[j]),
                                                         LineDen(y))],
                       trend       |-> trend,
                       slope       |-> RoundHalfEven(10000 * Sxy(y), Sxx(Len(y))),
                       confidence  |-> Score4(y),
                       r_squared   |-> Score4(y),
                       patterns    |-> patterns,
                       recommendations |-> generate_ai_recommendations(trend, patterns)]

PredictDemand ==
    /\ pred_pc = "idle"
    /\ prediction' = predict_demand(pred_arrival_times, forecast_periods)
    /\ model_fitted' = Fits(pred_arrival_times)
    /\ pred_pc' = "returned"
    /\ UNCHANGED <<simvars, statvars, runs, pred_arrival_times, forecast_periods>>

\* Inputs of the predictor: time-ordered lists of timestamps
PredStamps == {50 * k : k \in 0..MaxHalfUnits} \cup {LateStamp}

\* the time-ordered lists of exactly n timestamps
RECURSIVE OrderedStamps(_)
OrderedStamps(n) ==
    IF n = 0 THEN {<<>>}
    ELSE UNION {{Append(s, x) : x \in {v \in PredStamps : s = <<>> \/ s[Len(s)] <= v}} :
                    s \in OrderedStamps(n - 1)}

PredInputs == UNION {OrderedStamps(n) : n \in 0..MaxArrivals}

InitPred ==
    /\ arrival_rate = 1
    /\ service_rate = 1
    /\ num_servers = 1
    /\ sim_time = 1
    /\ queue_capacity = 1
    /\ customers_served = 0
    /\ customers_rejected = 0
    /\ wait_times = <<>>
    /\ service_times = <<>>
    /\ system_times = <<>>
    /\ queue_lengths = <<>>
    /\ arrival_times = <<>>
    /\ server_busy_time = 0
    /\ max_queue_length = 0
    /\ now = 0
    /\ evq = {}
    /\ eid = 0
    /\ users = <<>>
    /\ put_queue = <<>>
    /\ customer_id = 0
    /\ cust = <<>>
    /\ pc = "init"
    /\ results = <<>>
    /\ start_order = <<>>
    /\ rejected_ids = {}
    /\ pred_arrival_times \in PredInputs
    /\ forecast_periods \in 0..MaxForecast
    /\ prediction = <<>>
    /\ model_fitted = FALSE
    /\ pred_pc = "idle"
    /\ stat_wait_times = <<>>
    /\ stat_service_times = <<>>
    /\ report = <<>>
    /\ stat_pc = "idle"
    /\ runs = 0

NextPred == PredictDemand

SpecPred == InitPred /\ [][NextPred]_vars

\* =================================================================
\* StatisticalAnalysis (simulation/statistics.py)
\* =================================================================
\* The series hold hundredths of a time unit, as the result bundle does.
\* Dictionaries are functions from keys; the empty dictionary is <<>>.
\* numpy's descriptive statistics are computed exactly and rounded as the
\* code rounds; a value that scipy computes (skewness, kurtosis, test
\* statistics, p-values, the t quantile of the margin, Pearson's r) is not
\* computed and is held as the marker "scipy".
HasSamples(x) == Len(x) > 0

\* Lines 52-53
HasShape(x) == Len(x) > 2

\* Lines 75 and 85
EnoughForTest_Two(x) == Len(x) >= 2

EnoughForTest(x) == Len(x) >= 3

\* Line 104
TooFewForInterval(w) == Len(w) < 2

\* Line 129
EnoughForTTest(w) == Len(w) >= 2

\* Line 146
TooFewForCorrelation(w, sv) == Len(w) < 2 \/ Len(sv) < 2

\* Library calls that raise ValueError: np.min, np.max and np.percentile of
\* an empty array, stats.shapiro below 3 values, stats.pearsonr below 2
NpReduceRaises(x) == Len(x) = 0

ShapiroRaises(x) == Len(x) < 3

PearsonRaises(n) == n < 2

RECURSIVE MinOf(_)
MinOf(s) == IF Len(s) = 1 THEN s[1] ELSE Min(Head(s), MinOf(Tail(s)))

\* np.median
Median(x) ==
    LET srt == Sorted(x)
        n == Len(x)
    IN  IF n % 2 = 1 THEN srt[(n + 1) \div 2]
        ELSE RoundHalfEven(srt[n \div 2] + srt[n \div 2 + 1], 2)

\* np.percentile(x, q), linear interpolation at position q (n - 1) / 100
Percentile(x, q) ==
    LET srt == Sorted(x)
        idx == (q * (Len(x) - 1)) \div 100
        frac == (q * (Len(x) - 1)) % 100
    IN  IF frac = 0 THEN srt[idx + 1]
        ELSE RoundHalfEven(100 * srt[idx + 1] + frac * (srt[idx + 2] - srt[idx + 1]), 100)

StatMean(x) == RoundHalfEven(SumSeq(x), Len(x))

StatStd(x) == RoundSqrt(VarNum(x), Len(x) * Len(x), MaxOf(x) + 1)

StatVar(x) == RoundHalfEven(VarNum(x), 100 * Len(x) * Len(x))

\* descriptive_statistics, lines 35-63
descriptive_statistics(w, sv) ==
    [wait_times |->
        [mean     |-> IF HasSamples(w) THEN StatMean(w) ELSE 0,
         median   |-> IF HasSamples(w) THEN Median(w) ELSE 0,
         std      |-> IF HasSamples(w) THEN StatStd(w) ELSE 0,
         variance |-> IF HasSamples(w) THEN StatVar(w) ELSE 0,
         min      |-> IF HasSamples(w) THEN MinOf(w) ELSE 0,
         max      |-> IF HasSamples(w) THEN MaxOf(w) ELSE 0,
         q25      |-> IF HasSamples(w) THEN Percentile(w, 25) ELSE 0,
         q75      |-> IF HasSamples(w) THEN Percentile(w, 75) ELSE 0,
         skewness |-> IF HasShape(w) THEN "scipy" ELSE 0,
         kurtosis |-> IF HasShape(w) THEN "scipy" ELSE 0],
     service_times |->
        [mean     |-> IF HasSamples(sv) THEN StatMean(sv) ELSE 0,
         median   |-> IF HasSamples(sv) THEN Median(sv) ELSE 0,
         std      |-> IF HasSamples(sv) THEN StatStd(sv) ELSE 0,
         variance |-> IF HasSamples(sv) THEN StatVar(sv) ELSE 0,
         min      |-> IF HasSamples(sv) THEN MinOf(sv) ELSE 0,
         max      |-> IF HasSamples(sv) THEN MaxOf(sv) ELSE 0]]

DescriptiveRaises(w, sv) ==
    \/ HasSamples(w) /\ NpReduceRaises(w)
    \/ HasSamples(sv) /\ NpReduceRaises(sv)

\* test_distributions, lines 65-96
test_distributions(w, sv) ==
    (IF EnoughForTest(w)
     THEN "wait_times_normality" :>
              [test |-> "Shapiro-Wilk", statistic |-> "scipy",
               p_value |-> "scipy", is_normal |-> "scipy"]
     ELSE <<>>)
    @@ (IF EnoughForTest(sv) /\ SumSeq(sv) > 0
        THEN "service_times_exponential" :>
                 [test |-> "Kolmogorov-Smirnov", statistic |-> "scipy",
                  p_value |-> "scipy", is_exponential |-> "scipy"]
        ELSE <<>>)

DistributionsRaise(w, sv) == EnoughForTest(w) /\ ShapiroRaises(w)

\* confidence_intervals, lines 98-119; the level 0.95 in hundredths
confidence_intervals(w) ==
    IF TooFewForInterval(w) THEN <<>>
    ELSE "wait_time_ci" :>
             [confidence_level |-> 95,
              mean             |-> StatMean(w),
              lower_bound      |-> "scipy",
              upper_bound      |-> "scipy",
              margin_of_error  |-> "scipy"]

\* hypothesis_tests, lines 121-140
hypothesis_tests(w) ==
    IF EnoughForTTest(w)
    THEN "wait_time_ttest" :>
             [null_hypothesis |-> "Mean wait time = 5.0 minutes",
              t_statistic     |-> "scipy",
              p_value         |-> "scipy",
              reject_null     |-> "scipy",
              actual_mean     |-> StatMean(w)]
    ELSE <<>>

\* correlation_analysis, lines 142-164
correlation_analysis(w, sv) ==
    IF TooFewForCorrelation(w, sv) THEN <<>>
    ELSE LET min_len == Min(Len(w), Len(sv))
         IN  IF min_len >= 2
             THEN "wait_vs_service" :>
                      [correlation_coefficient |-> "scipy",
                       p_value                 |-> "scipy",
                       interpretation          |-> "scipy"]
             ELSE <<>>

CorrelationRaises(w, sv) ==
    /\ ~TooFewForCorrelation(w, sv)
    /\ Min(Len(w), Len(sv)) >= 2
    /\ PearsonRaises(Min(Len(w), Len(sv)))

\* analyze, lines 23-33
analyze(w, sv) ==
    [descriptive_stats    |-> descriptive_statistics(w, sv),
     distributions        |-> test_distributions(w, sv),
     confidence_intervals |-> confidence_intervals(w),
     hypothesis_tests     |-> hypothesis_tests(w),
     correlation          |-> correlation_analysis(w, sv)]

AnalyzeRaises(w, sv) ==
    \/ DescriptiveRaises(w, sv)
    \/ DistributionsRaise(w, sv)
    \/ CorrelationRaises(w, sv)

Analyze ==
    /\ stat_pc = "idle"
    /\ IF AnalyzeRaises(stat_wait_times, stat_service_times)
       THEN /\ stat_pc' = "raised"
            /\ report' = report
       ELSE /\ stat_pc' = "returned"
            /\ report' = analyze(stat_wait_times, stat_service_times)
    /\ UNCHANGED <<simvars, predvars, runs, stat_wait_times, stat_service_times>>

\* Inputs of the analysis: series of non-negative durations
StatValues == {0, 150, 600}

StatInputs == UNION {[1..n -> StatValues] : n \in 0..MaxSamples}

InitStat ==
    /\ arrival_rate = 1
    /\ service_rate = 1
    /\ num_servers = 1
    /\ sim_time = 1
    /\ queue_capacity = 1
    /\ customers_served = 0
    /\ customers_rejected = 0
    /\ wait_times = <<>>
    /\ service_times = <<>>
    /\ system_times = <<>>
    /\ queue_lengths = <<>>
    /\ arrival_times = <<>>
    /\ server_busy_time = 0
    /\ max_queue_length = 0
    /\ now = 0
    /\ evq = {}
    /\ eid = 0
    /\ users = <<>>
    /\ put_queue = <<>>
    /\ customer_id = 0
    /\ cust = <<>>
    /\ pc = "init"
    /\ results = <<>>
    /\ start_order = <<>>
    /\ rejected_ids = {}
    /\ pred_arrival_times = <<>>
    /\ forecast_periods = 0
    /\ prediction = <<>>
    /\ model_fitted = FALSE
    /\ pred_pc = "idle"
    /\ stat_wait_times \in StatInputs
    /\ stat_service_times \in StatInputs
    /\ report = <<>>
    /\ stat_pc = "idle"
    /\ runs = 0

NextStat == Analyze

SpecStat == InitStat /\ [][NextStat]_vars

\* =================================================================
\* Properties of the simulation engine
\* =================================================================
Pending(kind) == {e \in evq : e.kind = kind}

\* C1: when run() returns, customers_served + customers_rejected equals the
\* number of arrivals recorded in arrival_times, customers still waiting or
\* in service at the horizon included.
C1_ServedPlusRejectedIsArrivals ==
    (pc = "returned" /\ ValidConfig) =>
        customers_served + customers_rejected = Len(arrival_times)

\* C2: at every instant of a run with queue_capacity >= 0 the customers
\* holding a server are at most num_servers and the admitted customers
\* waiting for one are at most queue_capacity.
C2_CapacityBounds ==
    queue_capacity >= 0 =>
        /\ Len(users) <= num_servers
        /\ Len(put_queue) <= queue_capacity

C2_Witness ==
    /\ pc = "running"
    /\ ValidConfig
    /\ queue_capacity >= 1
    /\ Len(users) = num_servers
    /\ Len(put_queue) = queue_capacity

\* C3: an arriving customer is admitted exactly when the waiting line at
\* the arrival instant is shorter than queue_capacity.  A rejected customer
\* adds one to customers_rejected, never enters the waiting line, is never
\* looked at again, never holds a server and leaves no wait, service,
\* system-time or queue-length sample.
C3_ArrivalStep ==
    Len(arrival_times') = Len(arrival_times) + 1 =>
        LET c == customer_id'
        IN  IF Len(put_queue) < queue_capacity
            THEN /\ customers_rejected' = customers_rejected
                 /\ c \notin rejected_ids'
                 /\ \E e \in evq' : e.kind = "init_cust" /\ e.cust = c /\ e.time = now'
            ELSE /\ customers_rejected' = customers_rejected + 1
                 /\ c \in rejected_ids'
                 /\ \A e \in evq' : e.cust # c

C3_SampleStep ==
    (\/ queue_lengths' # queue_lengths
     \/ wait_times' # wait_times
     \/ service_times' # service_times
     \/ system_times' # system_times
     \/ put_queue' # put_queue
     \/ users' # users) =>
        /\ NextEvent.kind \in {"init_cust", "request", "done", "release"}
        /\ NextEvent.cust \notin rejected_ids

C3_RejectedStayOut ==
    /\ Cardinality(rejected_ids) = customers_rejected
    /\ \A c \in rejected_ids :
        /\ c \notin SeqRange(put_queue)
        /\ c \notin SeqRange(users)
        /\ c \notin SeqRange(start_order)
        /\ c \notin DOMAIN cust
        /\ \A e \in evq : e.cust # c

C3_AdmissionPolicy ==
    /\ [][C3_ArrivalStep /\ C3_SampleStep]_vars
    /\ []C3_RejectedStayOut

\* a customer was rejected while a server was idle or busy, and service went on
C3_Witness ==
    /\ ValidConfig
    /\ customers_rejected >= 1
    /\ queue_capacity >= 1
    /\ Len(put_queue) = queue_capacity
    /\ customers_served >= 1

C5_InvalidConfigRejected ==
    ~ValidConfig =>
        /\ pc # "returned"
        /\ pc = "raised" =>
              /\ customer_id = 0
              /\ arrival_times = <<>>
              /\ queue_lengths = <<>>
              /\ wait_times = <<>>
              /\ service_times = <<>>
              /\ system_times = <<>>
              /\ customers_served = 0
              /\ customers_rejected = 0
              /\ server_busy_time = 0
              /\ max_queue_length = 0

\* C6: with sim_time > 0 and num_servers >= 1 the accumulated busy time
\* never exceeds num_servers * sim_time, and the reported utilization
\* (in ten-thousandths) lies in [0, 1].
C6_UtilizationBounded ==
    (sim_time > 0 /\ num_servers >= 1) =>
        /\ 0 <= server_busy_time
        /\ server_busy_time <= num_servers * sim_time
        /\ pc = "returned" =>
              /\ 0 <= results.server_utilization
              /\ results.server_utilization <= 10000

\* a run returned with busy time on record while a service that started
\* before the horizon was still going on
C6_Witness ==
    /\ pc = "returned"
    /\ ValidConfig
    /\ server_busy_time >= num_servers
    /\ results.server_utilization > 0
    /\ \E e \in Pending("done") : e.time > sim_time

\* C7: servers are assigned first come, first served.  Customer ids count
\* arrivals, so: customers start service in arrival order, nobody starts
\* while an earlier admitted customer has not, and a granted server goes to
\* the customer that has waited longest.
Admitted == (1..customer_id) \ rejected_ids

C7_GrantStep ==
    Len(users') = Len(users) + 1 =>
        LET g == users'[Len(users')]
        IN  /\ \A w \in SeqRange(put_queue') : g < w
            /\ put_queue # <<>> => g = Head(put_queue)

C7_StartOrder ==
    /\ \A i, j \in 1..Len(start_order) : i < j => start_order[i] < start_order[j]
    /\ \A i, j \in 1..Len(put_queue) : i < j => put_queue[i] < put_queue[j]
    /\ \A b \in SeqRange(start_order) : \A a \in Admitted :
           a < b => a \in SeqRange(start_order)
    /\ \A w \in SeqRange(put_queue) : \A u \in SeqRange(users) : u < w

C7_Fifo ==
    /\ [][C7_GrantStep]_vars
    /\ []C7_StartOrder

\* a waiting customer got the server released by another one while a later
\* customer kept waiting
C7_Witness ==
    /\ ValidConfig
    /\ Len(start_order) >= 2
    /\ customers_served >= 1
    /\ put_queue # <<>>
    /\ \E i \in 1..Len(wait_times) : wait_times[i] > 0

\* C8: at every instant of a run on a valid configuration max_queue_length
\* is at least the current length of the waiting line.
C8_MaxQueueTracksLine ==
    ValidConfig => max_queue_length >= Len(put_queue)

\* C12: with queue_capacity = 0 every arriving customer is rejected, also
\* when all servers are idle: nobody is served, no wait, service or system
\* time is recorded, and the reported rejection_probability (in
\* ten-thousandths) is exactly 1 once an arrival occurred.
C12_ZeroCapacityRejectsAll ==
    queue_capacity = 0 =>
        /\ customers_served = 0
        /\ customers_rejected = Len(arrival_times)
        /\ wait_times = <<>>
        /\ service_times = <<>>
        /\ system_times = <<>>
        /\ queue_lengths = <<>>
        /\ users = <<>>
        /\ put_queue = <<>>
        /\ pc = "returned" =>
              results.rejection_probability =
                  IF Len(arrival_times) >= 1 THEN 10000 ELSE 0

\* a returned run that rejected two customers while every server was idle
C12_Witness ==
    /\ ValidConfig
    /\ queue_capacity = 0
    /\ pc = "returned"
    /\ customers_rejected >= 2
    /\ results.rejection_probability = 10000
    /\ results.customers_served = 0

\* C13 (as stated): in every state of a run the series agree:
\* len(wait_times) = len(service_times),
\* len(system_times) = customers_served <= len(wait_times) <= len(queue_lengths),
\* len(queue_lengths) = len(arrival_times) - customers_rejected.
C13_SeriesConsistent ==
    ValidConfig =>
        /\ Len(wait_times) = Len(service_times)
        /\ Len(system_times) = customers_served
        /\ customers_served <= Len(wait_times)
        /\ Len(wait_times) <= Len(queue_lengths)
        /\ Len(queue_lengths) = Len(arrival_times) - customers_rejected

\* C13 (amended): the same relations, except that an admitted customer is
\* in arrival_times from its arrival step and in queue_lengths only from
\* the first step of its process, scheduled for the same instant: until
\* then queue_lengths is one short.  When run() has returned no such
\* customer is left and the last equality holds.
C13_SeriesConsistentAmended ==
    ValidConfig =>
        /\ Len(wait_times) = Len(service_times)
        /\ Len(system_times) = customers_served
        /\ customers_served <= Len(wait_times)
        /\ Len(wait_times) <= Len(queue_lengths)
        /\ Cardinality(Pending("init_cust")) <= 1
        /\ Len(queue_lengths) + Cardinality(Pending("init_cust"))
               = Len(arrival_times) - customers_rejected
        /\ pc = "returned" =>
               Len(queue_lengths) = Len(arrival_times) - customers_rejected

\* one customer served, one started or waiting, one rejected
C13_Witness ==
    /\ ValidConfig
    /\ customers_served >= 1
    /\ customers_rejected >= 1
    /\ Len(wait_times) < Len(queue_lengths)
    /\ Pending("init_cust") = {}

\* C14: every run() call starts from zero counters and empty series, so the
\* bundle of a later run() on the same instance counts only the arrivals of
\* that call (customer_id, which the generator restarts at 0) and its
\* server_utilization lies in [0, 1].
C14_RunsIndependent ==
    /\ (pc = "running" /\ Pending("init_gen") # {}) =>
           /\ customers_served = 0
           /\ customers_rejected = 0
           /\ server_busy_time = 0
           /\ max_queue_length = 0
           /\ wait_times = <<>> /\ service_times = <<>> /\ system_times = <<>>
           /\ queue_lengths = <<>> /\ arrival_times = <<>>
    /\ pc = "returned" =>
           /\ Len(arrival_times) = customer_id
           /\ results.customers_served + results.customers_rejected <= customer_id
           /\ results.server_utilization >= 0
           /\ results.server_utilization <= 10000

\* =================================================================
\* Properties of the demand predictor
\* =================================================================
\* C9: the forecast is the fitted line at the next forecast_periods bin
\* indices: with n bins, indexed 0..n-1, the predictions are the line at
\* n, n+1, ..., n+forecast_periods-1, and there are forecast_periods of them.
C9_ForecastNextBins ==
    (pred_pc = "returned" /\ model_fitted) =>
        LET y == prepare_time_series(pred_arrival_times)
            n == Len(y)
        IN  /\ Len(prediction.predictions) = forecast_periods
            /\ \A j \in 1..forecast_periods :
                   prediction.predictions[j] =
                       RoundHalfEven(100 * LineNum(y, n + j - 1), LineDen(y))

\* C10: on fewer than 5 timestamps, or on timestamps that fall into fewer
\* than 3 bins, predict_demand returns trend "insufficient_data", no
\* predictions and confidence 0, and fits no model.
C10_InsufficientData ==
    (/\ pred_pc = "returned"
     /\ \/ Len(pred_arrival_times) < 5
        \/ Len(prepare_time_series(pred_arrival_times)) < 3) =>
        /\ prediction.trend = "insufficient_data"
        /\ prediction.predictions = <<>>
        /\ prediction.confidence = 0
        /\ DOMAIN prediction = {"predictions", "trend", "confidence"}
        /\ ~model_fitted

\* five or more timestamps that fall into two bins only
C10_Witness ==
    /\ pred_pc = "returned"
    /\ Len(pred_arrival_times) >= 5
    /\ Len(prepare_time_series(pred_arrival_times)) = 2
    /\ prediction.trend = "insufficient_data"

\* =================================================================
\* Properties of the statistical analysis
\* =================================================================
AllZero(d) == \A k \in DOMAIN d : d[k] = 0

\* C11: analyze does not raise on wait and service series of length 0, 1
\* or 2, and its report has: all-zero descriptive statistics for an empty
\* series, skewness and kurtosis 0, no distribution test, and an empty
\* confidence interval, hypothesis test and correlation whenever fewer
\* than 2 (paired) samples are available.
C11_LowSampleReport ==
    (/\ stat_pc # "idle"
     /\ Len(stat_wait_times) <= 2
     /\ Len(stat_service_times) <= 2) =>
        /\ stat_pc = "returned"
        /\ Len(stat_wait_times) = 0 => AllZero(report.descriptive_stats.wait_times)
        /\ Len(stat_service_times) = 0 => AllZero(report.descriptive_stats.service_times)
        /\ report.descriptive_stats.wait_times.skewness = 0
        /\ report.descriptive_stats.wait_times.kurtosis = 0
        /\ DOMAIN report.distributions = {}
        /\ Len(stat_wait_times) < 2 =>
              /\ DOMAIN report.confidence_intervals = {}
              /\ DOMAIN report.hypothesis_tests = {}
        /\ (Len(stat_wait_times) < 2 \/ Len(stat_service_times) < 2) =>
              DOMAIN report.correlation = {}

\* a report on one wait time and two service times
C11_Witness ==
    /\ stat_pc = "returned"
    /\ Len(stat_wait_times) = 1
    /\ Len(stat_service_times) = 2
    /\ DOMAIN report.correlation = {}
    /\ report.descriptive_stats.service_times.max > 0

====
